---- MODULE Spec2Model ----
(***************************************************************************)
(* Model of the Plot widget of termui (v3/widgets/plot.go).                *)
(*                                                                         *)
(* A float64 sample is modelled as an integer numerator over the fixed     *)
(* denominator Den (Den = 2: halves), so value ranges below one unit       *)
(* exist.  math.Inf(1) and math.Inf(-1) are the sentinels PosInf, NegInf.  *)
(* A point is [X, Y], a rectangle [Min, Max] as in package image.          *)
(*                                                                         *)
(* Quotients are taken exactly and then truncated as int() does.  With     *)
(* Den = 2 every sample is a dyadic float64 and, over the samples and      *)
(* draw areas used here, the float64 expressions of plot.go give the same  *)
(* integers as the exact quotients.                                        *)
(*                                                                         *)
(* A panic inside Draw leaves every assignment and every buffer or canvas  *)
(* write made before it in place; outcome records how the call ended.      *)
(***************************************************************************)
EXTENDS Integers, Sequences, FiniteSets, TLC

VARIABLES
    \* fields of Plot (and Inner of the embedded Block)
    Data, DataLabels, MaxVal, MinVal, XMaxVal, XMinVal,
    ShowAxes, Marker, PlotType, HorizontalScale, Inner,
    \* what the last Draw did
    outcome,      \* "none" (never drawn), "returned", "panic"
    axisCells,    \* cells of the axes skeleton written by plotAxes
    yLabels,      \* positions of the Y-axis labels written by plotAxes
    xLabels,      \* sequence of [x, text]: the X-axis labels, in emission order
    dots,         \* marker cells written by renderDot: [series, pt]
    canvasPoints, \* points handed to Canvas.SetPoint: [idx, pt]
    canvasLines,  \* segments handed to Canvas.SetLine: [series, k, from, to]
    canvasDrawn,  \* canvas.Draw(buf) was reached
    drawArea,     \* the draw area of the last Draw
    mapped        \* the (value, height) pairs the height mapping produced

vars == <<Data, DataLabels, MaxVal, MinVal, XMaxVal, XMinVal,
          ShowAxes, Marker, PlotType, HorizontalScale, Inner,
          outcome, axisCells, yLabels, xLabels, dots,
          canvasPoints, canvasLines, canvasDrawn, drawArea, mapped>>

----------------------------------------------------------------------------
\* Bounds of the model.
Den == 2          \* samples are multiples of 1/Den
MaxNum == 2       \* samples are 0/Den .. MaxNum/Den
MaxScale == 2     \* HorizontalScale is 1 .. MaxScale
MaxWidth == 14    \* widest inner rectangle
MaxHeight == 5    \* height of the inner rectangle

\* Program constants.
xAxisLabelsHeight == 1
yAxisLabelsWidth == 4
xAxisLabelsGap == 2
yAxisLabelsGap == 1
LineChart == 0
ScatterPlot == 1
MarkerBraille == 0
MarkerDot == 1

PosInf == 1000000
NegInf == -PosInf
IsFinite(v) == v # PosInf /\ v # NegInf

----------------------------------------------------------------------------
\* package image
Pt(x, y) == [X |-> x, Y |-> y]

Rect(x0, y0, x1, y1) ==
    [Min |-> Pt(IF x0 > x1 THEN x1 ELSE x0, IF y0 > y1 THEN y1 ELSE y0),
     Max |-> Pt(IF x0 > x1 THEN x0 ELSE x1, IF y0 > y1 THEN y0 ELSE y1)]

Dx(r) == r.Max.X - r.Min.X
Dy(r) == r.Max.Y - r.Min.Y

PtIn(p, r) ==
    /\ r.Min.X <= p.X /\ p.X < r.Max.X
    /\ r.Min.Y <= p.Y /\ p.Y < r.Max.Y

----------------------------------------------------------------------------
\* Helpers of the termui package.
MaxFloat64(x, y) == IF x > y THEN x ELSE y
MinFloat64(x, y) == IF x < y THEN x ELSE y

AllVals(slices) ==
    UNION {{slices[i][j] : j \in 1..Len(slices[i])} : i \in 1..Len(slices)}

SetMax(S) == CHOOSE m \in S : \A v \in S : v <= m
SetMin(S) == CHOOSE m \in S : \A v \in S : m <= v

GetMaxFloat64From2dSlice(slices) ==
    IF AllVals(slices) = {} THEN NegInf ELSE SetMax(AllVals(slices))

GetMinFloat64From2dSlice(slices) ==
    IF AllVals(slices) = {} THEN PosInf ELSE SetMin(AllVals(slices))

\* Go's int(f) for a finite quotient a/b, b > 0: truncation towards zero.
TruncDiv(a, b) == IF a >= 0 THEN a \div b ELSE -((-a) \div b)

\* What int(f) may give for a non-finite f (implementation-dependent in Go).
UndefInt == {-(2^20), 0, 2^20}

----------------------------------------------------------------------------
\* fmt.Sprintf
Digit(d) == <<"0", "1", "2", "3", "4", "5", "6", "7", "8", "9">>[d + 1]

RECURSIVE FmtNat(_)
FmtNat(n) == IF n < 10 THEN Digit(n) ELSE FmtNat(n \div 10) \o Digit(n % 10)

\* "%d"
FmtD(n) == IF n < 0 THEN "-" \o FmtNat(-n) ELSE FmtNat(n)

\* "%.02f" of the finite value p/q (q > 0): nearest hundredth, ties to even.
Fmt2f(p, q) ==
    LET a == IF p < 0 THEN -p ELSE p
        fl == (100 * a) \div q
        rem == (100 * a) % q
        h == IF 2 * rem > q \/ (2 * rem = q /\ fl % 2 = 1) THEN fl + 1 ELSE fl
    IN  (IF p < 0 THEN "-" ELSE "") \o FmtNat(h \div 100) \o "."
            \o Digit((h % 100) \div 10) \o Digit(h % 10)

----------------------------------------------------------------------------
\* A height mapping that scales by the full height of the draw area.
HeightFullDy(val, minVal, maxVal, area) ==
    TruncDiv((val - minVal) * Dy(area), MaxFloat64(Den, maxVal - minVal))

\* The height mapping shared by all draw paths:
\*   int((val - minVal) / MaxFloat64(1, maxVal-minVal) * float64(drawArea.Dy()-1))
\* with val, minVal, maxVal numerators over Den, so that 1 is Den.
Height(val, minVal, maxVal, area) ==
    TruncDiv((val - minVal) * (Dy(area) - 1), MaxFloat64(Den, maxVal - minVal))

\* The scatter column offset:
\*   int((x - XMinVal) * float64(HorizontalScale*(drawArea.Dx()-1)) / xDx)
\* With XMinVal still +Inf the operand is -Inf, +Inf or NaN and int() gives u.
XOffset(x, xmin, xmax, scale, area, u) ==
    IF IsFinite(xmin)
        THEN TruncDiv((x - xmin) * (scale * (Dx(area) - 1)),
                      MaxFloat64(Den, xmax - xmin))
        ELSE u

\* Scatter loop "for i, x := range Data[0] { y := Data[1][i] ... }":
\* the number of iterations completed, and whether the next one panics.
ScatterDone(data) ==
    IF Len(data) = 0 THEN 0
    ELSE IF Len(data) = 1 THEN 0
    ELSE IF Len(data[1]) <= Len(data[2]) THEN Len(data[1]) ELSE Len(data[2])

ScatterPanics(data) ==
    \/ Len(data) = 0
    \/ Len(data) = 1 /\ Len(data[1]) > 0
    \/ Len(data) >= 2 /\ Len(data[1]) > Len(data[2])

----------------------------------------------------------------------------
\* A step of plotAxes' label cursor that keeps one column less than the gap.
LabelAdvanceShort(x, label, scale) ==
    x + (Len(label) + xAxisLabelsGap - 1) * scale

\* plotAxes: "x += (len(label) + xAxisLabelsGap) * self.HorizontalScale"
LabelAdvance(x, label, scale) == x + (Len(label) + xAxisLabelsGap) * scale

\* plotAxes: X-axis labels of scatter mode, from column x on.
RECURSIVE ScatterXLabels(_, _, _, _, _, _, _)
ScatterXLabels(x, inner, scale, labels, xmin, xmax, acc) ==
    IF ~(x < inner.Max.X - 1) THEN acc
    ELSE
        LET index == (x - (inner.Min.X + yAxisLabelsWidth)) \div scale
            w == Dx(inner) - yAxisLabelsWidth - 1
            gen == IF IsFinite(xmin) /\ IsFinite(xmax)
                       THEN Fmt2f(xmin * w + index * (xmax - xmin), Den * w)
                       ELSE "NaN"
            label == IF Len(labels) > index THEN labels[index + 1] ELSE gen
        IN  ScatterXLabels(LabelAdvance(x, label, scale),
                           inner, scale, labels, xmin, xmax,
                           Append(acc, [x |-> x, text |-> label]))

\* plotAxes: X-axis labels of line mode after the first, from column x on.
RECURSIVE LineXLabels(_, _, _, _, _)
LineXLabels(x, inner, scale, labels, acc) ==
    IF ~(x < inner.Max.X - 1) THEN acc
    ELSE
        LET index == ((x - (inner.Min.X + yAxisLabelsWidth) - 1) \div scale) + 1
            label == IF Len(labels) > index THEN labels[index + 1] ELSE FmtD(index)
        IN  LineXLabels(LabelAdvance(x, label, scale),
                        inner, scale, labels,
                        Append(acc, [x |-> x, text |-> label]))

\* plotAxes(buf, minVal, maxVal).  The text of the Y-axis labels is not
\* tracked, their positions are.
plotAxes(data, labels, ptype, scale, inner, xmin, xmax) ==
    LET cells ==
            {Pt(inner.Min.X + yAxisLabelsWidth, inner.Max.Y - xAxisLabelsHeight - 1)}
            \cup {Pt(i + inner.Min.X, inner.Max.Y - xAxisLabelsHeight - 1) :
                     i \in (yAxisLabelsWidth + 1)..(Dx(inner) - 1)}
            \cup {Pt(inner.Min.X + yAxisLabelsWidth, i + inner.Min.Y) :
                     i \in 0..(Dy(inner) - xAxisLabelsHeight - 2)}
        ylab == {Pt(inner.Min.X, inner.Max.Y - (i * (yAxisLabelsGap + 1)) - 2) :
                     i \in {k \in 0..Dy(inner) : k * (yAxisLabelsGap + 1) < Dy(inner) - 1}}
        x0 == inner.Min.X + yAxisLabelsWidth
    IN  IF ptype = ScatterPlot
        THEN IF Len(data) = 0
             THEN [panic |-> TRUE, cells |-> cells, ylabels |-> ylab,
                   xlabels |-> <<>>, XMinVal |-> xmin, XMaxVal |-> xmax]
             ELSE LET xs == {data[1][j] : j \in 1..Len(data[1])}
                      nmin == IF xs = {} THEN xmin ELSE MinFloat64(xmin, SetMin(xs))
                      nmax == IF xs = {} THEN xmax ELSE MaxFloat64(xmax, SetMax(xs))
                  IN  [panic |-> FALSE, cells |-> cells, ylabels |-> ylab,
                       xlabels |-> ScatterXLabels(x0, inner, scale, labels,
                                                  nmin, nmax, <<>>),
                       XMinVal |-> nmin, XMaxVal |-> nmax]
        ELSE LET firstLabel == IF Len(labels) > 0 THEN labels[1] ELSE "0"
                 start == x0 + (xAxisLabelsGap + Len(firstLabel) - 1) * scale + 1
             IN  [panic |-> FALSE, cells |-> cells, ylabels |-> ylab,
                  xlabels |-> LineXLabels(start, inner, scale, labels,
                                          <<[x |-> x0, text |-> firstLabel]>>),
                  XMinVal |-> xmin, XMaxVal |-> xmax]

----------------------------------------------------------------------------
\* renderBraille: what the canvas is handed.
renderBraille(data, ptype, scale, area, minVal, maxVal, xmin, xmax, u) ==
    IF ptype = ScatterPlot
    THEN LET n == ScatterDone(data)
         IN  [panic |-> ScatterPanics(data),
              points |-> {[idx |-> i - 1,
                           pt |-> Pt((area.Min.X
                                       + XOffset(data[1][i], xmin, xmax, scale, area, u)) * 2,
                                     (area.Max.Y
                                       - Height(data[2][i], minVal, maxVal, area) - 1) * 4)] :
                             i \in 1..n},
              lines |-> {},
              dots |-> {},
              mapped |-> {[val |-> data[2][i],
                           height |-> Height(data[2][i], minVal, maxVal, area)] :
                             i \in 1..n}]
    ELSE LET \* "previousHeight := ... line[1] ..." panics on a series shorter than 2
             short == {i \in 1..Len(data) : Len(data[i]) < 2}
             n == IF short = {} THEN Len(data) ELSE SetMin(short) - 1
             \* previousHeight when the segment to line[1:][j] is drawn
             prev(i, j) == IF j = 0 THEN Height(data[i][2], minVal, maxVal, area)
                           ELSE Height(data[i][j + 1], minVal, maxVal, area)
         IN  [panic |-> short # {},
              points |-> {},
              lines |-> UNION {{[series |-> i - 1, k |-> j,
                                 from |-> Pt((area.Min.X + (j * scale)) * 2,
                                             (area.Max.Y - prev(i, j) - 1) * 4),
                                 to |-> Pt((area.Min.X + ((j + 1) * scale)) * 2,
                                           (area.Max.Y
                                             - Height(data[i][j + 2], minVal, maxVal, area)
                                             - 1) * 4)] :
                                   j \in 0..(Len(data[i]) - 2)} : i \in 1..n},
              dots |-> {},
              mapped |-> UNION {{[val |-> data[i][j],
                                  height |-> Height(data[i][j], minVal, maxVal, area)] :
                                    j \in 2..Len(data[i])} : i \in 1..n}]

\* renderDot: the marker cells written to the buffer.
renderDot(data, ptype, scale, area, minVal, maxVal, xmin, xmax, u) ==
    IF ptype = ScatterPlot
    THEN LET n == ScatterDone(data)
             point(i) == Pt(area.Min.X + XOffset(data[1][i], xmin, xmax, scale, area, u),
                            area.Max.Y - 1 - Height(data[2][i], minVal, maxVal, area))
         IN  [panic |-> ScatterPanics(data),
              points |-> {},
              lines |-> {},
              dots |-> {[series |-> 0, pt |-> point(i)] :
                           i \in {k \in 1..n : PtIn(point(k), area)}},
              mapped |-> {[val |-> data[2][i],
                           height |-> Height(data[2][i], minVal, maxVal, area)] :
                             i \in 1..n}]
    ELSE LET js(i) == {j \in 0..(Len(data[i]) - 1) : j * scale < Dx(area)}
         IN  [panic |-> FALSE,
              points |-> {},
              lines |-> {},
              dots |-> UNION {{[series |-> i - 1,
                                pt |-> Pt(area.Min.X + (j * scale),
                                          area.Max.Y - 1
                                            - Height(data[i][j + 1], minVal, maxVal, area))] :
                                  j \in js(i)} : i \in 1..Len(data)},
              mapped |-> UNION {{[val |-> data[i][j + 1],
                                  height |-> Height(data[i][j + 1], minVal, maxVal, area)] :
                                    j \in js(i)} : i \in 1..Len(data)}]

\* The draw area Draw derives from Inner.
DrawAreaOf(inner, showAxes) ==
    IF showAxes
        THEN Rect(inner.Min.X + yAxisLabelsWidth + 1, inner.Min.Y,
                  inner.Max.X, inner.Max.Y - xAxisLabelsHeight - 1)
        ELSE inner

\* A widening that forgets the tracked maximum.
WidenMaxReset(maxVal, data) == GetMaxFloat64From2dSlice(data)

\* A widening that takes a dataset without samples to have the minimum 0.
WidenMinZero(minVal, data) ==
    MinFloat64(IF AllVals(data) = {} THEN 0 ELSE GetMinFloat64From2dSlice(data),
               minVal)

\* The widening of the value bounds at the head of Draw.
WidenMax(maxVal, data) == MaxFloat64(maxVal, GetMaxFloat64From2dSlice(data))
WidenMin(minVal, data) == MinFloat64(GetMinFloat64From2dSlice(data), minVal)

----------------------------------------------------------------------------
EmptyRect == Rect(0, 0, 0, 0)

\* NewPlot(); Inner is the zero rectangle until the caller sets one.
Init ==
    /\ Data = <<>> /\ DataLabels = <<>>
    /\ MinVal = PosInf /\ MaxVal = NegInf
    /\ XMinVal = PosInf /\ XMaxVal = NegInf
    /\ ShowAxes = TRUE /\ Marker = MarkerBraille /\ PlotType = LineChart
    /\ HorizontalScale = 1 /\ Inner = EmptyRect
    /\ outcome = "none"
    /\ axisCells = {} /\ yLabels = {} /\ xLabels = <<>>
    /\ dots = {} /\ canvasPoints = {} /\ canvasLines = {}
    /\ canvasDrawn = FALSE /\ drawArea = EmptyRect /\ mapped = {}

NoAxes(xmin, xmax) ==
    [panic |-> FALSE, cells |-> {}, ylabels |-> {}, xlabels |-> <<>>,
     XMinVal |-> xmin, XMaxVal |-> xmax]

NoRender ==
    [panic |-> TRUE, points |-> {}, lines |-> {}, dots |-> {}, mapped |-> {}]

\* Draw(buf), after the caller has set the public fields d, l, pt, m, sa, hs
\* and the inner rectangle in.  Each intermediate result is bound once
\* (\E over a singleton) in the order Draw computes it.
Draw(d, l, pt, m, sa, hs, in, u) ==
    \E newMax \in {WidenMax(MaxVal, d)}, newMin \in {WidenMin(MinVal, d)},
       ax \in {IF sa THEN plotAxes(d, l, pt, hs, in, XMinVal, XMaxVal)
               ELSE NoAxes(XMinVal, XMaxVal)},
       area \in {DrawAreaOf(in, sa)} :
    \E rd \in {IF ax.panic THEN NoRender
               ELSE IF m = MarkerBraille
               THEN renderBraille(d, pt, hs, area, newMin, newMax,
                                  ax.XMinVal, ax.XMaxVal, u)
               ELSE renderDot(d, pt, hs, area, newMin, newMax,
                              ax.XMinVal, ax.XMaxVal, u)} :
        /\ Data' = d /\ DataLabels' = l /\ PlotType' = pt /\ Marker' = m
        /\ ShowAxes' = sa /\ HorizontalScale' = hs /\ Inner' = in
        /\ MaxVal' = newMax /\ MinVal' = newMin
        /\ XMinVal' = ax.XMinVal /\ XMaxVal' = ax.XMaxVal
        /\ axisCells' = ax.cells /\ yLabels' = ax.ylabels /\ xLabels' = ax.xlabels
        /\ drawArea' = IF ax.panic THEN EmptyRect ELSE area
        /\ dots' = rd.dots /\ canvasPoints' = rd.points /\ canvasLines' = rd.lines
        /\ mapped' = rd.mapped
        /\ canvasDrawn' = (m = MarkerBraille /\ ~rd.panic)
        /\ outcome' = IF rd.panic THEN "panic" ELSE "returned"

----------------------------------------------------------------------------
Vals == 0..MaxNum

\* All datasets over vals whose series have the lengths shape[1], shape[2], ...
Fill(shape, vals) ==
    {d \in [1..Len(shape) ->
                UNION {[1..shape[i] -> vals] : i \in 1..Len(shape)}] :
        \A i \in 1..Len(shape) : Len(d[i]) = shape[i]}

PlotTypes == {LineChart, ScatterPlot}
Markers == {MarkerBraille, MarkerDot}

\* int() of a non-finite operand happens only where the horizontal bounds
\* are still the sentinels when the markers are mapped.
Undef(sa) == IF ~sa /\ ~IsFinite(XMinVal) THEN UndefInt ELSE {0}

InnerStd == Rect(1, 1, 1 + MaxWidth, 1 + MaxHeight)

\* Redraws of any dataset of a few shapes, in every draw path, with and
\* without axes, in a fixed inner rectangle.
StdShapes == {<<>>, <<1>>, <<2>>, <<0, 0>>, <<1, 0>>, <<1, 1>>, <<0, 0, 0>>}
StdData == UNION {Fill(sh, Vals) : sh \in StdShapes}

DrawStd ==
    \E d \in StdData, pt \in PlotTypes, m \in Markers, sa \in BOOLEAN :
        \E u \in Undef(sa) : Draw(d, <<>>, pt, m, sa, 1, InnerStd, u)

Next == DrawStd

Spec == Init /\ [][Next]_vars

\* Redraws of longer series over the two extreme samples, with every
\* horizontal scale, in an inner rectangle whose draw area has no row when
\* axes are shown.
RenderShapes == {<<0>>, <<1>>, <<2>>, <<3>>, <<2, 1>>, <<2, 2>>}
RenderData == UNION {Fill(sh, {0, MaxNum}) : sh \in RenderShapes}
InnerFlat == Rect(1, 1, 1 + MaxWidth, 1 + xAxisLabelsHeight + 1)

DrawRender ==
    \E d \in RenderData, pt \in PlotTypes, m \in Markers, sa \in BOOLEAN,
       hs \in 1..MaxScale :
        \E u \in Undef(sa) : Draw(d, <<>>, pt, m, sa, hs, InnerFlat, u)

NextRender == DrawRender

SpecRender == Init /\ [][NextRender]_vars

\* Redraws with axes, with supplied labels, every horizontal scale and every
\* inner width.
LabelSets == {<<>>, <<"">>, <<"", "">>, <<"abc">>, <<"", "abc">>}
LabelData == {<<<<>>, <<>>>>, <<<<0, 25 * Den>>, <<0, MaxNum>>>>}

DrawLabels ==
    \E d \in LabelData, l \in LabelSets, pt \in PlotTypes, hs \in 1..MaxScale,
       w \in 0..MaxWidth :
        Draw(d, l, pt, MarkerDot, TRUE, hs, Rect(1, 1, 1 + w, 1 + MaxHeight), 0)

NextLabels == DrawLabels

SpecLabels == Init /\ [][NextLabels]_vars

----------------------------------------------------------------------------
\* Properties.

SamplesOf(series) == {series[j] : j \in 1..Len(series)}

\* C1: from one Draw to the next MinVal and XMinVal never increase and
\* MaxVal and XMaxVal never decrease.
BoundsNeverShrink ==
    [][/\ MinVal' <= MinVal /\ MaxVal' >= MaxVal
       /\ XMinVal' <= XMinVal /\ XMaxVal' >= XMaxVal]_vars

\* A scatter redraw whose samples lie strictly inside the tracked bounds.
NarrowerDatasetDrawn ==
    /\ outcome = "returned" /\ PlotType = ScatterPlot /\ Len(Data) = 2
    /\ Len(Data[1]) > 0 /\ Len(Data[2]) > 0
    /\ \A x \in SamplesOf(Data[1]) : XMinVal < x /\ x < XMaxVal
    /\ \A v \in AllVals(Data) : MinVal < v /\ v < MaxVal

\* C2 (as claimed): a scatter redraw with a series count other than 2 or
\* with X- and Y-series of different lengths ends in an error result, not
\* in a panic, and has written no axis, label or marker before.
InvalidScatter ==
    /\ PlotType = ScatterPlot
    /\ (Len(Data) # 2 \/ Len(Data[1]) # Len(Data[2]))

ScatterConfigRejected ==
    (outcome # "none" /\ InvalidScatter) =>
        /\ outcome = "error"
        /\ axisCells = {} /\ yLabels = {} /\ xLabels = <<>>
        /\ dots = {} /\ canvasPoints = {} /\ canvasLines = {}

HeightBoundary ==
    \A mp \in mapped :
        /\ mp.val = MinVal => mp.height = 0
        /\ mp.val = MaxVal => mp.height = Dy(drawArea) - 1

LabelsDoNotOverlap ==
    \A i \in 2..Len(xLabels) :
        xLabels[i].x >= xLabels[i - 1].x + Len(xLabels[i - 1].text) + xAxisLabelsGap

\* A line redraw with an empty first label whose second label starts
\* exactly the gap after it, followed by a third.
TightLineLabels ==
    /\ outcome = "returned" /\ PlotType = LineChart /\ Len(xLabels) >= 3
    /\ xLabels[1].text = ""
    /\ xLabels[2].x = xLabels[1].x + xAxisLabelsGap

\* C5 (as claimed): a redraw with no series returns and hands no marker to
\* the buffer or the canvas.
EmptyRedrawCompletes ==
    (outcome # "none" /\ Len(Data) = 0) =>
        /\ outcome = "returned"
        /\ dots = {} /\ canvasPoints = {} /\ canvasLines = {}

WidenBySeries(lo, hi, series) ==
    IF Len(series) = 0 THEN <<lo, hi>>
    ELSE <<MinFloat64(lo, SetMin(SamplesOf(series))),
           MaxFloat64(hi, SetMax(SamplesOf(series)))>>

\* C7 (as claimed): a scatter Draw widens MinVal / MaxVal by the second
\* series only and XMinVal / XMaxVal by the first series only.
ScatterBoundsBySeries ==
    [][(PlotType' = ScatterPlot /\ Len(Data') = 2) =>
         /\ <<MinVal', MaxVal'>> = WidenBySeries(MinVal, MaxVal, Data'[2])
         /\ <<XMinVal', XMaxVal'>> = WidenBySeries(XMinVal, XMaxVal, Data'[1])]_vars

\* C8 (as claimed): when a scatter Draw has mapped its markers, every
\* sample of the X-series lies within XMinVal .. XMaxVal.
HorizontalBoundsCoverX ==
    (/\ outcome # "none" /\ PlotType = ScatterPlot
     /\ Len(Data) >= 2 /\ Len(Data[1]) > 0 /\ Len(Data[1]) = Len(Data[2])) =>
        \A x \in SamplesOf(Data[1]) : XMinVal <= x /\ x <= XMaxVal

\* The segment the claim expects between samples k and k+1 (k from 0).
SegmentBetween(i, k) ==
    [series |-> i - 1, k |-> k,
     from |-> Pt((drawArea.Min.X + (k * HorizontalScale)) * 2,
                 (drawArea.Max.Y
                    - Height(Data[i][k + 1], MinVal, MaxVal, drawArea) - 1) * 4),
     to |-> Pt((drawArea.Min.X + ((k + 1) * HorizontalScale)) * 2,
               (drawArea.Max.Y
                  - Height(Data[i][k + 2], MinVal, MaxVal, drawArea) - 1) * 4)]

\* C9 (as claimed): a line Draw with the braille marker returns and hands
\* the canvas, for every series, exactly the segments between consecutive
\* samples, each end at the height of its own sample.
LineSegmentsConnectSamples ==
    (outcome # "none" /\ PlotType = LineChart /\ Marker = MarkerBraille) =>
        /\ outcome = "returned"
        /\ canvasLines =
               UNION {{SegmentBetween(i, k) : k \in 0..(Len(Data[i]) - 2)} :
                          i \in 1..Len(Data)}

\* C10 (as claimed): every marker cell written with the dot marker lies in
\* the draw area.
CoarseMarkersInsideDrawArea ==
    (outcome # "none" /\ Marker = MarkerDot) =>
        \A c \in dots : PtIn(c.pt, drawArea)

====
